---- MODULE Spec2Model ----
(***************************************************************************)
(* The Abode integration (homeassistant/components/abode/__init__.py):     *)
(* setup and unload of the config entry, the shutdown listener, the three  *)
(* host services, the relay of vendor events to the host bus and the       *)
(* entity adapters' vendor callbacks.                                      *)
(*                                                                         *)
(* async_setup_entry and async_unload_entry are coroutines: pc is the      *)
(* position of the one that is running, and one action is the code between *)
(* two of its awaits.  The host serialises setup and unload of an entry.   *)
(***************************************************************************)
EXTENDS Integers, Sequences, FiniteSets, Bags, TLC

\* ------------------------------------------------------------------ bounds
\* calls of async_setup_entry in one run
MaxSetups == 2
\* EVENT_HOMEASSISTANT_STOP firings in one run
MaxStops == 2

\* --------------------------------------------------------------- constants
DOMAIN_ABODE == "abode"

SERVICE_SETTINGS == "change_setting"
SERVICE_CAPTURE_IMAGE == "capture_image"
SERVICE_TRIGGER == "trigger_quick_action"

ATTR_DEVICE_ID == "device_id"
ATTR_DEVICE_NAME == "device_name"
ATTR_DEVICE_TYPE == "device_type"
ATTR_EVENT_CODE == "event_code"
ATTR_EVENT_NAME == "event_name"
ATTR_EVENT_TYPE == "event_type"
ATTR_EVENT_UTC == "event_utc"
ATTR_USER_NAME == "user_name"
ATTR_DATE == "date"
ATTR_TIME == "time"

\* the five categories setup_abode_events subscribes to
RelayEvents ==
    {"abode_alarm", "abode_alarm_end", "abode_panel_fault",
     "abode_panel_restore", "abode_automation"}

\* what the Abode constructor can end with; the first three are caught
CaughtErrors == {"AbodeException", "ConnectTimeout", "HTTPError"}
ConnectOutcomes == {"ok", "AbodeException", "ConnectTimeout", "HTTPError", "OSError"}

\* ---------------------------------------------------------------- entities
\* AbodeDevice adapters (their entity ids) and the vendor device each wraps
DeviceEntities == {"camera.front", "camera.back"}
DeviceId(e) == IF e = "camera.front" THEN "ZB:0001" ELSE "ZB:0002"

\* AbodeAutomation adapters and the event each was constructed with
NoEvent == "None"
AutomationEntities == {"switch.rule", "switch.plain"}
AutomationEvent(e) == IF e = "switch.rule" THEN "abode_automation_edit" ELSE NoEvent

Entities == DeviceEntities \cup AutomationEntities

VARIABLES
    pc,           \* position of the running setup / unload coroutine
    polling,      \* config_entry.data[CONF_POLLING]
    setups,       \* calls of async_setup_entry so far
    lastReturn,   \* how the last setup / unload ended
    lastError,    \* what the Abode constructor raised in the last setup
    hassData,     \* hass.data, restricted to the key DOMAIN
    services,     \* the host's service registry for DOMAIN
    listener,     \* the bus holds the one-time EVENT_HOMEASSISTANT_STOP listener
    forwarded,    \* the entry is forwarded to the entity platforms
    client,       \* the vendor client object built last
    created,      \* entities the platforms created in this setup
    attached,     \* entities attached to the host
    stops,        \* EVENT_HOMEASSISTANT_STOP firings so far
    logoutRuns,   \* runs of logout() since the listener was attached
    logoutCalls,  \* vendor calls of the last run of logout()
    keyError,     \* logout() read hass.data[DOMAIN] when it was gone
    unloadCalls,  \* vendor calls of the running / last async_unload_entry
    lastRefresh,  \* the last vendor event's _update_callback runs
    lastCall,     \* the last service call and what its handler did
    lastFired     \* the last vendor event and the bus events it produced

vars ==
    <<pc, polling, setups, lastReturn, lastError, hassData, services, listener,
      forwarded, client, created, attached, stops, logoutRuns, logoutCalls,
      keyError, unloadCalls, lastRefresh, lastCall, lastFired>>

lifecycleVars ==
    <<pc, setups, lastReturn, lastError, hassData, services, listener,
      forwarded, client, created, attached, unloadCalls>>
stopVars == <<stops, logoutRuns, logoutCalls, keyError>>
callVars == <<lastCall>>
eventVars == <<lastRefresh, lastFired>>

\* ------------------------------------------------------------- hass.data
NoData == [k \in {} |-> 0]
HasContext == DOMAIN_ABODE \in DOMAIN hassData
Context == hassData[DOMAIN_ABODE]
SetContext(ctx) == DOMAIN_ABODE :> ctx
PopContext == [k \in (DOMAIN hassData) \ {DOMAIN_ABODE} |-> hassData[k]]

\* AbodeSystem.__init__
AbodeSystem(abode, poll) ==
    [abode |-> abode, polling |-> poll, devices |-> <<>>, logout_listener |-> "None"]

\* ---------------------------------------------------------- vendor client
NoClient == [id |-> 0]

\* Abode(username, password, True, True, True, cache): logged in, idle stream
NewClient(n) ==
    [id |-> n, loggedIn |-> TRUE, running |-> FALSE,
     eventCallbacks |-> EmptyBag, deviceCallbacks |-> {}]

\* abode.events.add_event_callback(group, callback): appended to the group's list
AddEventCallback(c, group, owner) ==
    [c EXCEPT !.eventCallbacks = @ (+) SetToBag({<<group, owner>>})]

\* abode.events.add_device_callback(device_id, callback)
AddDeviceCallback(c, dev, owner) ==
    [c EXCEPT !.deviceCallbacks = @ \cup {<<dev, owner>>}]

\* abode.events.remove_all_device_callbacks(device_id)
RemoveAllDeviceCallbacks(c, dev) ==
    [c EXCEPT !.deviceCallbacks = {cb \in @ : cb[1] # dev}]

EventsStart(c) == [c EXCEPT !.running = TRUE]
EventsStop(c) == [c EXCEPT !.running = FALSE]
Logout(c) == [c EXCEPT !.loggedIn = FALSE]

ALL_SERVICES == {SERVICE_SETTINGS, SERVICE_CAPTURE_IMAGE, SERVICE_TRIGGER}

Init ==
    /\ pc = "idle"
    /\ polling \in BOOLEAN
    /\ setups = 0
    /\ lastReturn = "none"
    /\ lastError = "none"
    /\ hassData = NoData
    /\ services = {}
    /\ listener = FALSE
    /\ forwarded = FALSE
    /\ client = NoClient
    /\ created = {}
    /\ attached = {}
    /\ stops = 0
    /\ logoutRuns = 0
    /\ logoutCalls = <<>>
    /\ keyError = FALSE
    /\ unloadCalls = <<>>
    /\ lastRefresh = {}
    /\ lastCall = [service |-> "none"]
    /\ lastFired = [event |-> "none"]


\* ------------------------------------------------------ async_setup_entry
\* The host sets an entry up only when it is not loaded, one operation at a time.
EntryLoaded == lastReturn = "setup_true"

\* lines 118-132 when the constructor returned: the context is stored and the
\* entry is forwarded to the platforms
ConnectOk ==
    /\ client' = NewClient(setups + 1)
    /\ hassData' = SetContext(AbodeSystem(setups + 1, polling))
    /\ forwarded' = TRUE
    /\ created' = {}
    /\ pc' = "setup_hass_events"
    /\ UNCHANGED <<lastReturn, services, listener, attached, unloadCalls>>

\* ConnectCaught, had the context been stored before the constructor was tried
ConnectCaughtStored ==
    /\ lastReturn' = "setup_false"
    /\ pc' = "idle"
    /\ hassData' = SetContext(AbodeSystem(0, polling))
    /\ UNCHANGED <<services, listener, forwarded, client, created, attached,
                   unloadCalls>>

\* lines 125-127: log the error and return False
ConnectCaught ==
    /\ lastReturn' = "setup_false"
    /\ pc' = "idle"
    /\ UNCHANGED <<hassData, services, listener, forwarded, client, created,
                   attached, unloadCalls>>

\* any other exception leaves async_setup_entry at line 120
ConnectRaised ==
    /\ lastReturn' = "setup_raised"
    /\ pc' = "idle"
    /\ UNCHANGED <<hassData, services, listener, forwarded, client, created,
                   attached, unloadCalls>>

SetupConnect(outcome) ==
    /\ pc = "idle"
    /\ ~EntryLoaded
    /\ setups < MaxSetups
    /\ setups' = setups + 1
    /\ lastError' = IF outcome = "ok" THEN "none" ELSE outcome
    /\ IF outcome = "ok" THEN ConnectOk
       ELSE IF outcome \in CaughtErrors THEN ConnectCaught
       ELSE ConnectRaised
    /\ UNCHANGED <<polling, stopVars, callVars, eventVars>>

\* setup_hass_events: start the stream in push mode, attach the stop listener
SetupHassEvents ==
    /\ pc = "setup_hass_events"
    /\ client' = IF ~Context.polling THEN EventsStart(client) ELSE client
    /\ listener' = TRUE
    /\ hassData' = SetContext([Context EXCEPT !.logout_listener = "remove"])
    /\ logoutRuns' = 0
    /\ pc' = "setup_hass_services"
    /\ UNCHANGED <<polling, setups, lastReturn, lastError, services, forwarded,
                   created, attached, unloadCalls, stops, logoutCalls, keyError,
                   callVars, eventVars>>

\* setup_hass_services: hass.services.register, three times
SetupHassServices ==
    /\ pc = "setup_hass_services"
    /\ services' = services \cup ALL_SERVICES
    /\ pc' = "setup_abode_events"
    /\ UNCHANGED <<polling, setups, lastReturn, lastError, hassData, listener,
                   forwarded, client, created, attached, unloadCalls, stopVars,
                   callVars, eventVars>>

\* the loop of setup_abode_events: one partial(event_callback, event) per event
RECURSIVE AddRelayCallbacks(_, _)
AddRelayCallbacks(c, events) ==
    IF events = {} THEN c
    ELSE LET ev == CHOOSE x \in events : TRUE
         IN AddRelayCallbacks(AddEventCallback(c, ev, <<"relay", ev>>), events \ {ev})

\* setup_abode_events, then async_setup_entry returns True
SetupAbodeEvents ==
    /\ pc = "setup_abode_events"
    /\ client' = AddRelayCallbacks(client, RelayEvents)
    /\ lastReturn' = "setup_true"
    /\ pc' = "idle"
    /\ UNCHANGED <<polling, setups, lastError, hassData, services, listener,
                   forwarded, created, attached, unloadCalls, stopVars, callVars,
                   eventVars>>

\* ---------------------------------------------------------------- entities
\* AbodeDevice.async_added_to_hass
DeviceAddedToHass(c, e) == AddDeviceCallback(c, DeviceId(e), e)

\* AbodeDevice.async_will_remove_from_hass
DeviceWillRemove(c, e) == RemoveAllDeviceCallbacks(c, DeviceId(e))

\* AbodeAutomation.async_added_to_hass
AutomationAddedToHass(c, e) ==
    IF AutomationEvent(e) # NoEvent
    THEN AddEventCallback(c, AutomationEvent(e), <<"automation", e>>)
    ELSE c

\* AbodeAutomation defines no async_will_remove_from_hass: Entity's does nothing
AutomationWillRemove(c, e) == c

AddedToHass(c, e) ==
    IF e \in DeviceEntities THEN DeviceAddedToHass(c, e) ELSE AutomationAddedToHass(c, e)

WillRemove(c, e) ==
    IF e \in DeviceEntities THEN DeviceWillRemove(c, e) ELSE AutomationWillRemove(c, e)

\* the platforms put each device entity they create in the context's list
RegisterDevice(ctx, e) ==
    IF e \in DeviceEntities THEN [ctx EXCEPT !.devices = Append(@, e)] ELSE ctx

\* a forwarded platform creates an entity and the host attaches it
PlatformAddEntity(e) ==
    /\ forwarded
    /\ HasContext
    /\ e \notin created
    /\ created' = created \cup {e}
    /\ attached' = attached \cup {e}
    /\ hassData' = SetContext(RegisterDevice(Context, e))
    /\ client' = AddedToHass(client, e)
    /\ UNCHANGED <<pc, polling, setups, lastReturn, lastError, services, listener,
                   forwarded, unloadCalls, stopVars, callVars, eventVars>>

\* the host removes one entity
EntityRemove(e) ==
    /\ e \in attached
    /\ attached' = attached \ {e}
    /\ client' = WillRemove(client, e)
    /\ UNCHANGED <<pc, polling, setups, lastReturn, lastError, hassData, services,
                   listener, forwarded, created, unloadCalls, stopVars, callVars,
                   eventVars>>

\* unloading the platforms removes every entity that is attached
RECURSIVE RemoveEntities(_, _)
RemoveEntities(c, es) ==
    IF es = {} THEN c
    ELSE LET e == CHOOSE x \in es : TRUE
         IN RemoveEntities(WillRemove(c, e), es \ {e})

\* UnloadPlatforms, had it left trigger_quick_action registered
UnloadPlatformsKeepsTrigger ==
    /\ pc = "idle"
    /\ EntryLoaded
    /\ services' = services \ {SERVICE_SETTINGS, SERVICE_CAPTURE_IMAGE}
    /\ client' = RemoveEntities(client, attached)
    /\ attached' = {}
    /\ forwarded' = FALSE
    /\ unloadCalls' = <<>>
    /\ pc' = "unload_stop"
    /\ UNCHANGED <<polling, setups, lastReturn, lastError, hassData, listener,
                   created, stopVars, callVars, eventVars>>

\* ----------------------------------------------------- async_unload_entry
\* lines 143-154: remove the services, unload the platforms
UnloadPlatforms ==
    /\ pc = "idle"
    /\ EntryLoaded
    /\ services' = services \ ALL_SERVICES
    /\ client' = RemoveEntities(client, attached)
    /\ attached' = {}
    /\ forwarded' = FALSE
    /\ unloadCalls' = <<>>
    /\ pc' = "unload_stop"
    /\ UNCHANGED <<polling, setups, lastReturn, lastError, hassData, listener,
                   created, stopVars, callVars, eventVars>>

\* line 156: events.stop, whatever the mode
UnloadStop ==
    /\ pc = "unload_stop"
    /\ client' = EventsStop(client)
    /\ unloadCalls' = Append(unloadCalls, "events.stop")
    /\ pc' = "unload_logout"
    /\ UNCHANGED <<polling, setups, lastReturn, lastError, hassData, services,
                   listener, forwarded, created, attached, stopVars, callVars,
                   eventVars>>

\* UnloadLogout, had it not popped the context
UnloadLogoutKeepsContext ==
    /\ pc = "unload_logout"
    /\ client' = Logout(client)
    /\ unloadCalls' = Append(unloadCalls, "logout")
    /\ listener' = FALSE
    /\ lastReturn' = "unload_true"
    /\ pc' = "idle"
    /\ UNCHANGED <<polling, setups, lastError, hassData, services, forwarded,
                   created, attached, stopVars, callVars, eventVars>>

\* UnloadLogout, had it not called the listener's detach handle
UnloadLogoutKeepsListener ==
    /\ pc = "unload_logout"
    /\ client' = Logout(client)
    /\ unloadCalls' = Append(unloadCalls, "logout")
    /\ hassData' = PopContext
    /\ lastReturn' = "unload_true"
    /\ pc' = "idle"
    /\ UNCHANGED <<polling, setups, lastError, services, listener, forwarded,
                   created, attached, stopVars, callVars, eventVars>>

\* lines 157-162: logout, detach the stop listener, pop the context, return True
UnloadLogout ==
    /\ pc = "unload_logout"
    /\ client' = Logout(client)
    /\ unloadCalls' = Append(unloadCalls, "logout")
    /\ listener' = FALSE
    /\ hassData' = PopContext
    /\ lastReturn' = "unload_true"
    /\ pc' = "idle"
    /\ UNCHANGED <<polling, setups, lastError, services, forwarded, created,
                   attached, stopVars, callVars, eventVars>>

\* -------------------------------------------------- the shutdown listener
\* logout(event), lines 220-226, as the vendor calls it makes
LogoutCalls(ctx) ==
    IF ~ctx.polling THEN <<"events.stop", "logout">> ELSE <<"logout">>

RECURSIVE ApplyCalls(_, _)
ApplyCalls(c, calls) ==
    IF calls = <<>> THEN c
    ELSE ApplyCalls(IF Head(calls) = "events.stop" THEN EventsStop(c) ELSE Logout(c),
                    Tail(calls))

\* EVENT_HOMEASSISTANT_STOP fires: a one-time listener is detached and run
HassStop ==
    /\ stops < MaxStops
    /\ stops' = stops + 1
    /\ IF listener
       THEN /\ listener' = FALSE
            /\ logoutRuns' = logoutRuns + 1
            /\ IF HasContext
               THEN /\ logoutCalls' = LogoutCalls(Context)
                    /\ client' = ApplyCalls(client, LogoutCalls(Context))
                    /\ UNCHANGED keyError
               ELSE /\ keyError' = TRUE
                    /\ logoutCalls' = <<>>
                    /\ UNCHANGED client
       ELSE UNCHANGED <<listener, logoutRuns, logoutCalls, keyError, client>>
    /\ UNCHANGED <<pc, polling, setups, lastReturn, lastError, hassData, services,
                   forwarded, created, attached, unloadCalls, callVars, eventVars>>

\* ------------------------------------------------------- the host services
\* call.data.get(key): the value, or None when the call has no such key
HasKey(data, key) == key \in DOMAIN data

\* inputs of the service calls
Settings == {"beeper_mute", "no_such_setting"}
SettingValues == {"1"}
\* set_setting returns, or raises AbodeException (an invalid setting)
SettingOutcomes == {"ok", "AbodeException"}
CallEntityIds == SUBSET (DeviceEntities \cup {"camera.unknown"})
NoCallData == [k \in {} |-> 0]
\* what CAPTURE_IMAGE_SCHEMA / TRIGGER_SCHEMA accept: entity_id is optional
EntityCallData == {NoCallData} \cup {"entity_id" :> ids : ids \in CallEntityIds}

\* ChangeSettingHandler without the try / except
ChangeSettingUncaught(data, outcome) ==
    [vendorCalls |-> << <<"set_setting", data.setting, data.value>> >>,
     raised |-> outcome = "AbodeException"]

\* change_setting(call), lines 168-176: one set_setting, AbodeException logged
ChangeSettingHandler(data, outcome) ==
    [vendorCalls |-> << <<"set_setting", data.setting, data.value>> >>,
     raised |-> FALSE]

ChangeSetting(setting, value, outcome) ==
    /\ SERVICE_SETTINGS \in services
    /\ HasContext
    /\ LET data == [setting |-> setting, value |-> value]
           done == ChangeSettingHandler(data, outcome)
       IN lastCall' = [service |-> SERVICE_SETTINGS, data |-> data,
                       outcome |-> outcome, vendorCalls |-> done.vendorCalls,
                       raised |-> done.raised]
    /\ UNCHANGED <<lifecycleVars, polling, stopVars, eventVars>>

\* the comprehension of lines 182-186 / 195-199, then the loop over it:
\* "device.entity_id in entity_ids" is evaluated once per registered device,
\* and raises TypeError when entity_ids is None
EntityHandler(devices, data) ==
    IF ~HasKey(data, "entity_id")
    THEN [raised |-> devices # <<>>, invoked |-> <<>>]
    ELSE [raised |-> FALSE,
          invoked |-> SelectSeq(devices, LAMBDA d : d \in data["entity_id"])]

\* capture_image(call): device.capture() on each target
CaptureImageHandler(devices, data) == EntityHandler(devices, data)

\* trigger_quick_action(call): device.trigger() on each target
TriggerHandler(devices, data) == EntityHandler(devices, data)

EntityService(service, data) ==
    /\ service \in services
    /\ HasContext
    /\ LET devices == Context.devices
           done == IF service = SERVICE_CAPTURE_IMAGE
                   THEN CaptureImageHandler(devices, data)
                   ELSE TriggerHandler(devices, data)
       IN lastCall' = [service |-> service, data |-> data, devices |-> devices,
                       raised |-> done.raised, invoked |-> done.invoked]
    /\ UNCHANGED <<lifecycleVars, polling, stopVars, eventVars>>

\* ------------------------------------------------------ the vendor's events
\* event_json.get(key, "")
Get(json, key) == IF key \in DOMAIN json THEN json[key] ELSE ""

\* EventCallback, had it read the time from the date key
EventCallbackTimeFromDate(event, json) ==
    [event_type |-> event,
     data |-> [device_id |-> Get(json, ATTR_DEVICE_ID),
               device_name |-> Get(json, ATTR_DEVICE_NAME),
               device_type |-> Get(json, ATTR_DEVICE_TYPE),
               event_code |-> Get(json, ATTR_EVENT_CODE),
               event_name |-> Get(json, ATTR_EVENT_NAME),
               event_type |-> Get(json, ATTR_EVENT_TYPE),
               event_utc |-> Get(json, ATTR_EVENT_UTC),
               user_name |-> Get(json, ATTR_USER_NAME),
               date |-> Get(json, ATTR_DATE),
               time |-> Get(json, ATTR_DATE)]]

\* event_callback(event, event_json), lines 239-254: the bus event it fires
EventCallback(event, json) ==
    [event_type |-> event,
     data |-> [device_id |-> Get(json, ATTR_DEVICE_ID),
               device_name |-> Get(json, ATTR_DEVICE_NAME),
               device_type |-> Get(json, ATTR_DEVICE_TYPE),
               event_code |-> Get(json, ATTR_EVENT_CODE),
               event_name |-> Get(json, ATTR_EVENT_NAME),
               event_type |-> Get(json, ATTR_EVENT_TYPE),
               event_utc |-> Get(json, ATTR_EVENT_UTC),
               user_name |-> Get(json, ATTR_USER_NAME),
               date |-> Get(json, ATTR_DATE),
               time |-> Get(json, ATTR_TIME)]]

\* the vendor's event groups: the five relayed ones and the automations' own
VendorGroups == RelayEvents \cup {"abode_automation_edit"}

\* vendor event records: any of these keys, present or not
JsonKeys == {ATTR_DEVICE_ID, ATTR_TIME, "severity"}
JsonValues == {"a", "b"}
NoJson == [k \in {} |-> ""]
SampleJsons == UNION {[ks -> JsonValues] : ks \in SUBSET JsonKeys}

Repeat(x, n) == [i \in 1..n |-> x]

\* the bus events of the relay callbacks in cbs, each as often as it is registered
RECURSIVE FireAll(_, _, _)
FireAll(c, cbs, json) ==
    IF cbs = {} THEN <<>>
    ELSE LET cb == CHOOSE x \in cbs : TRUE
         IN Repeat(EventCallback(cb[2][2], json), CopiesIn(cb, c.eventCallbacks))
            \o FireAll(c, cbs \ {cb}, json)

\* the entities whose _update_callback runs, and whether each is attached
Refreshed(es) == {[entity |-> e, attached |-> e \in attached] : e \in es}

\* the vendor's stream delivers an event of a group to the group's callbacks
VendorEvent(group, json) ==
    /\ client # NoClient
    /\ client.running
    /\ LET cbs == {cb \in BagToSet(client.eventCallbacks) : cb[1] = group}
       IN /\ lastFired' =
                [event |-> group, json |-> json,
                 registered |-> \E cb \in cbs : cb[2][1] = "relay",
                 fired |-> FireAll(client, {cb \in cbs : cb[2][1] = "relay"}, json)]
          /\ lastRefresh' =
                Refreshed({cb[2][2] : cb \in {x \in cbs : x[2][1] = "automation"}})
    /\ UNCHANGED <<lifecycleVars, polling, stopVars, callVars>>

\* the vendor's stream delivers a device update to the device's callbacks
DeviceEvent(dev) ==
    /\ client # NoClient
    /\ client.running
    /\ lastRefresh' = Refreshed({cb[2] : cb \in {x \in client.deviceCallbacks : x[1] = dev}})
    /\ UNCHANGED <<lifecycleVars, polling, stopVars, callVars, lastFired>>

Lifecycle ==
    \/ \E outcome \in ConnectOutcomes : SetupConnect(outcome)
    \/ SetupHassEvents
    \/ SetupHassServices
    \/ SetupAbodeEvents
    \/ UnloadPlatforms
    \/ UnloadStop
    \/ UnloadLogout

\* setup, unload, the entities, the stop event and the vendor's stream (the
\* events of the two automation groups, one relayed and one not, and the
\* devices' updates)
Next ==
    \/ Lifecycle
    \/ \E e \in Entities : PlatformAddEntity(e)
    \/ \E e \in Entities : EntityRemove(e)
    \/ HassStop
    \/ \E g \in {"abode_automation", "abode_automation_edit"} : VendorEvent(g, NoJson)
    \/ \E e \in DeviceEntities : DeviceEvent(DeviceId(e))

Spec == Init /\ [][Next]_vars

\* setup, unload, the entities and the service calls
NextServices ==
    \/ Lifecycle
    \/ \E e \in Entities : PlatformAddEntity(e)
    \/ \E e \in Entities : EntityRemove(e)
    \/ \E s \in Settings, v \in SettingValues, o \in SettingOutcomes :
          ChangeSetting(s, v, o)
    \/ \E s \in {SERVICE_CAPTURE_IMAGE, SERVICE_TRIGGER}, d \in EntityCallData :
          EntityService(s, d)

SpecServices == Init /\ [][NextServices]_vars

\* setup, unload, the automation entities and the vendor's events
NextRelay ==
    \/ Lifecycle
    \/ \E e \in AutomationEntities : PlatformAddEntity(e)
    \/ \E g \in VendorGroups, j \in SampleJsons : VendorEvent(g, j)

SpecRelay == Init /\ [][NextRelay]_vars


\* ------------------------------------------------------------ properties
Range(seq) == {seq[i] : i \in DOMAIN seq}
Count(seq, x) == Cardinality({i \in DOMAIN seq : seq[i] = x})
Unloaded == pc = "idle" /\ lastReturn = "unload_true"
Loaded == pc = "idle" /\ EntryLoaded

\* the relay callbacks the vendor client holds for a category
RelayCount(c, group) ==
    IF c = NoClient THEN 0 ELSE CopiesIn(<<group, <<"relay", group>> >>, c.eventCallbacks)

\* a vendor callback of the entity adapter e is registered
HasCallback(e) ==
    /\ client # NoClient
    /\ IF e \in DeviceEntities
       THEN <<DeviceId(e), e>> \in client.deviceCallbacks
       ELSE BagIn(<<AutomationEvent(e), <<"automation", e>> >>, client.eventCallbacks)

\* C1: a finished unload has called events.stop if and only if polling is off.
C1_StopOnlyIfStarted ==
    Unloaded => (("events.stop" \in Range(unloadCalls)) <=> ~polling)

\* C2: after a successful setup each of the five categories has exactly one
\* relay callback, and after unload the vendor client holds none of them.
C2_CallbacksRegisteredOnceAndRemoved ==
    /\ Loaded => \A g \in RelayEvents : RelayCount(client, g) = 1
    /\ Unloaded => \A g \in RelayEvents : RelayCount(client, g) = 0

\* C3: a registered service implies the context exists; a finished setup has
\* registered exactly the three services and a finished unload has removed them.
C3_ServicesWithinContext ==
    /\ services # {} => HasContext
    /\ services \subseteq ALL_SERVICES
    /\ Loaded => services = ALL_SERVICES
    /\ Unloaded => services = {}

C3_Witness ==
    /\ Loaded
    /\ setups = 2
    /\ services = ALL_SERVICES
    /\ HasContext

\* C4: a setup whose constructor raises AbodeException, ConnectTimeout or
\* HTTPError returns False and changes nothing: no context, no forwarded
\* platform, no started stream, no stop listener, no service, no callback.
C4_FailedSetupHasNoEffect ==
    [][(setups' = setups + 1
        /\ lastError' \in {"AbodeException", "ConnectTimeout", "HTTPError"})
       => /\ lastReturn' = "setup_false"
          /\ pc' = "idle"
          /\ ~HasContext'
          /\ UNCHANGED <<hassData, forwarded, client, listener, services,
                         created, attached>>]_vars

C4_Witness ==
    /\ pc = "idle"
    /\ lastReturn = "setup_false"
    /\ lastError = "ConnectTimeout"
    /\ setups = 2
    /\ ~HasContext
    /\ services = {}
    /\ ~listener
    /\ ~forwarded

\* C5: hass.data holds at most one context; it is there from the moment a
\* setup has connected until unload has finished, and at no other time.
C5_ContextLifetime ==
    /\ Cardinality(DOMAIN hassData) <= 1
    /\ Loaded => HasContext
    /\ pc # "idle" => HasContext
    /\ (pc = "idle" /\ ~EntryLoaded) => ~HasContext
    /\ HasContext => Context.abode = client.id

C5_Witness ==
    /\ Unloaded
    /\ ~HasContext
    /\ setups = 2

\* C6: an attached adapter that subscribes (a device, an automation with an
\* event) has a vendor callback, a detached adapter has none, and no vendor
\* event runs the update callback of a detached adapter.
C6_SubscribedWhileAttached ==
    /\ \A e \in attached :
          (e \in DeviceEntities \/ AutomationEvent(e) # NoEvent) => HasCallback(e)
    /\ \A e \in Entities \ attached : ~HasCallback(e)
    /\ \A r \in lastRefresh : r.attached

\* C7: capture_image and trigger_quick_action never raise on an accepted call
\* and act exactly once on each registered device the call names, on no other.
C7_ActsOnNamedDevices ==
    lastCall.service \in {SERVICE_CAPTURE_IMAGE, SERVICE_TRIGGER} =>
        /\ ~lastCall.raised
        /\ \A d \in DeviceEntities \cup Range(lastCall.invoked) :
              Count(lastCall.invoked, d) =
                 IF /\ d \in Range(lastCall.devices)
                    /\ HasKey(lastCall.data, "entity_id")
                    /\ d \in lastCall.data["entity_id"]
                 THEN 1 ELSE 0

\* the ten fields of a relayed bus event
TenFields ==
    {ATTR_DEVICE_ID, ATTR_DEVICE_NAME, ATTR_DEVICE_TYPE, ATTR_EVENT_CODE,
     ATTR_EVENT_NAME, ATTR_EVENT_TYPE, ATTR_EVENT_UTC, ATTR_USER_NAME,
     ATTR_DATE, ATTR_TIME}

\* C8: a vendor event of one of the five categories, delivered while the
\* category's callback is registered, is fired on the bus exactly once, under
\* the category's name, with exactly the ten fields, each the value of the same
\* key of the vendor event or "" when the event has no such key.
C8_RelayedOnceWithTenFields ==
    (lastFired.event \in RelayEvents /\ lastFired.registered) =>
        /\ Len(lastFired.fired) = 1
        /\ lastFired.fired[1].event_type = lastFired.event
        /\ DOMAIN lastFired.fired[1].data = TenFields
        /\ \A k \in TenFields :
              lastFired.fired[1].data[k] =
                 IF k \in DOMAIN lastFired.json THEN lastFired.json[k] ELSE ""

C8_Witness ==
    /\ lastFired.event = "abode_panel_fault"
    /\ lastFired.registered
    /\ DOMAIN lastFired.json = {ATTR_TIME, "severity"}
    /\ Len(lastFired.fired) = 1
    /\ lastFired.fired[1].data[ATTR_TIME] = "b"
    /\ lastFired.fired[1].data[ATTR_DEVICE_ID] = ""

\* C9: change_setting calls set_setting once with the call's setting and value,
\* does not raise when that call raises AbodeException, and leaves the
\* context, the device registry and the services as they were.
C9_SettingErrorSwallowed ==
    [][(lastCall' # lastCall /\ lastCall'.service = SERVICE_SETTINGS)
       => /\ lastCall'.vendorCalls =
                << <<"set_setting", lastCall'.data.setting, lastCall'.data.value>> >>
          /\ ~lastCall'.raised
          /\ UNCHANGED <<hassData, services, client, listener, pc>>]_vars

C9_Witness ==
    /\ lastCall.service = SERVICE_SETTINGS
    /\ lastCall.outcome = "AbodeException"
    /\ lastCall.data.setting = "no_such_setting"
    /\ ~lastCall.raised
    /\ Len(lastCall.vendorCalls) = 1
    /\ SERVICE_SETTINGS \in services

\* C10: the stop listener runs at most once per setup; a run finds the context,
\* calls events.stop exactly when polling is off and then logout; once unload
\* has finished a stop event runs nothing and makes no vendor call.
C10_ShutdownListener ==
    /\ [](logoutRuns <= 1 /\ ~keyError)
    /\ [][logoutRuns' = logoutRuns + 1
          => /\ HasContext
             /\ logoutCalls' = IF Context.polling THEN <<"logout">>
                               ELSE <<"events.stop", "logout">>]_vars
    /\ [][(stops' = stops + 1 /\ pc = "idle" /\ ~EntryLoaded)
          => UNCHANGED <<client, logoutRuns, logoutCalls, listener>>]_vars

C10_Witness ==
    /\ Unloaded
    /\ stops = 2
    /\ logoutRuns = 1
    /\ ~polling
    /\ logoutCalls = <<"events.stop", "logout">>
    /\ ~keyError

====
